---------------------------- MODULE Spec2Model ----------------------------
(***************************************************************************)
(* A model of the taskfile runner:                                         *)
(*   crates/env-parser/src/lib.rs  EnvParser (environment files, $NAME     *)
(*                                 substitution)                           *)
(*   crates/runner/src/lib.rs      TaskRunner (dependency-aware executor)  *)
(*   crates/cli/src/main.rs        main (the process exit status)          *)
(*   crates/taskfile-runner/src/lib.rs  TaskRunner (the runner without     *)
(*                                 dependencies)                           *)
(*                                                                         *)
(* Strings are sequences of one-character strings.  An Option<T> is a      *)
(* sequence of length at most one: <<>> is None and <<v>> is Some(v).      *)
(* Offsets inside the string operators are the 0-based offsets of the      *)
(* Rust code; SubSeq and indexing are 1-based, hence the +1 where a        *)
(* character is read.                                                      *)
(***************************************************************************)
EXTENDS Integers, Sequences, FiniteSets, TLC

VARIABLES
    taskfile,    \* TaskRunner.taskfile.tasks: task name -> Task
    env,         \* the process-wide environment table (std::env)
    call,        \* the task name given to the top-level run_task, "-" before the call
    stack,       \* the nested run_task_with_deps calls, innermost last
    visited,     \* the `visited` vector shared by the nested calls
    ret,         \* the Result a call has just returned to its caller
    procs,       \* every child process spawned, in spawn order: is it running, has
                 \* wait_with_output returned its output, is its reporter running
    attempted,   \* the task names for which cmd.spawn() was called, in order
    fail,        \* history: where the first error of the run was raised
    cli,         \* the CLI process: has it exited, and with which status
    config,      \* EnvParser.config: Option<EnvConfig>
    fs,          \* the environment files on disk: file name -> file
    loadState,   \* load_env_files_with_base_path: "idle", "loading", "returned", "panicked"
    loadIdx,     \* index of the declared file the loader is at
    warnings,    \* the files for which "Warning: Failed to load" was printed
    loaded,      \* the files for which "Loaded n environment variables" was printed
    calls,       \* history: the top-level run_task calls made so far, in order
    budget,      \* the number of top-level run_task calls the client makes: one for
                 \* the CLI, any number for a client of the library
    world,       \* the working directory: package.json, the lockfiles, node_modules/.bin
    enhanced_path, \* TaskRunner.enhanced_path: Option<String>
    subst_in,    \* the argument of a call of substitute_env_vars
    subst_out,   \* the String that call returned: Option<String>, None before the call
    scan,        \* the loop of substitute_env_vars in progress: Option of its
                 \* locals `result` and `start`
    legacy       \* the run_task call made on the legacy runner: Option of its
                 \* Result and the commands it spawned

vars == <<taskfile, env, call, stack, visited, ret, procs, attempted, fail, cli,
          config, fs, loadState, loadIdx, warnings, loaded,
          calls, budget, world, enhanced_path, subst_in, subst_out, scan,
          legacy>>

runnerVars == <<taskfile, call, stack, visited, ret, procs, attempted, fail, cli>>
loaderVars == <<config, fs, loadState, loadIdx, warnings, loaded>>
clientVars == <<calls, budget>>
setupVars == <<world, enhanced_path>>
substVars == <<subst_in, subst_out, scan>>
legacyVars == <<legacy>>

----------------------------------------------------------------------------
(* Bounds of the model *)

\* longest depends_on list of the task "A"; "B" may list one name less, "C" two less
MaxDeps == 2
\* most lines in one environment file
MaxLines == 2
\* most files declared in env.files
MaxFiles == 2
\* the top-level run_task calls a client of the library makes on one TaskRunner
MaxCalls == 2
\* longest text given to substitute_env_vars
MaxText == 4
\* most dependencies one task lists in the manifests of the fair specification
MaxFan == 1

----------------------------------------------------------------------------
(* Strings *)

Range(s) == {s[p] : p \in 1..Len(s)}

Min(S) == CHOOSE x \in S : \A y \in S : x <= y

\* char::is_whitespace, on the characters of the model
Whitespace == {" "}

\* the characters c with c.is_alphanumeric() || c == '_'
IdentChars == {"a", "b", "E", "J", "K", "v", "w", "_"}

\* a byte sequence that is not valid UTF-8
BadByte == "\\xFF"

\* a test that takes the underscore for a separator
is_alphanumeric_only(c) == c \in IdentChars \ {"_"}

is_ident_char(c) == c \in IdentChars

RECURSIVE trim_start(_)
trim_start(s) ==
    IF s # <<>> /\ s[1] \in Whitespace THEN trim_start(Tail(s)) ELSE s

RECURSIVE trim_end(_)
trim_end(s) ==
    IF s # <<>> /\ s[Len(s)] \in Whitespace
    THEN trim_end(SubSeq(s, 1, Len(s) - 1))
    ELSE s

trim(s) == trim_end(trim_start(s))

starts_with(s, c) == s # <<>> /\ s[1] = c

ends_with(s, c) == s # <<>> /\ s[Len(s)] = c

\* str::split_whitespace: the maximal runs of non-whitespace characters
RECURSIVE split_whitespace(_)
split_whitespace(s) ==
    IF s = <<>> THEN <<>>
    ELSE IF s[1] \in Whitespace THEN split_whitespace(Tail(s))
    ELSE LET stops   == {p \in 1..Len(s) : s[p] \in Whitespace}
             tok_end == IF stops = {} THEN Len(s) ELSE Min(stops) - 1
         IN  <<SubSeq(s, 1, tok_end)>>
                 \o split_whitespace(SubSeq(s, tok_end + 1, Len(s)))

----------------------------------------------------------------------------
(* EnvParser *)

\* env::var(name).is_ok()
env_has(e, name) == name \in DOMAIN e

\* env::set_var panics on an empty key (setenv fails with EINVAL)
set_var_panics(key, value) == key = <<>>

\* a set_var that keeps the value of a key that is already set
set_var_if_absent(e, key, value) ==
    [k \in (DOMAIN e) \cup {key} |-> IF k \in DOMAIN e THEN e[k] ELSE value]

\* env::set_var(key, value): installs the pair, overwriting a prior value
set_var(e, key, value) ==
    [k \in (DOMAIN e) \cup {key} |-> IF k = key THEN value ELSE e[k]]

\* a value whose own `$NAME` is replaced before it is inserted
env_value_expanded(e, var_name) ==
    LET v == e[var_name] IN
    IF Len(v) >= 2 /\ v[1] = "$" /\ Tail(v) \in DOMAIN e THEN e[Tail(v)] ELSE v

\* `if let Ok(env_value) = env::var(var_name)`: the value of a variable that is set
env_value(e, var_name) == e[var_name]

\* a scan that steps over the character after a lone `$` as well
skip_bare_two(dollar_pos) == dollar_pos + 2

\* `start = dollar_pos + 1`: where the scan resumes after a `$` that no name
\* follows
skip_bare(dollar_pos) == dollar_pos + 1

\* a scan that resumes at the inserted value and so scans it again
resume_at_value(dollar_pos, value) == dollar_pos

\* `start = dollar_pos + env_value.len()`: where the scan resumes after a
\* replacement
resume_after(dollar_pos, value) == dollar_pos + Len(value)

\* one evaluation of the `while let` head of substitute_env_vars and, when a `$`
\* is found at or after offset `start`, of the loop body: the locals `result`
\* and `start` afterwards
subst_step(result, start, e) ==
    LET dollars == {p \in (start + 1)..Len(result) : result[p] = "$"} IN
    IF dollars = {} THEN [found |-> FALSE, result |-> result, start |-> start]
    ELSE
      LET dollar_pos == Min(dollars) - 1
          var_start  == dollar_pos + 1
          stops      == {p \in (var_start + 1)..Len(result) :
                            ~is_ident_char(result[p])}
          var_end    == IF stops = {} THEN Len(result) ELSE Min(stops) - 1
          var_name   == SubSeq(result, var_start + 1, var_end)
      IN  IF var_end > var_start
          THEN IF env_has(e, var_name)
               THEN [found |-> TRUE,
                     result |-> SubSeq(result, 1, dollar_pos)
                                   \o env_value(e, var_name)
                                   \o SubSeq(result, var_end + 1, Len(result)),
                     start |-> resume_after(dollar_pos,
                                            env_value(e, var_name))]
               ELSE [found |-> TRUE, result |-> result, start |-> var_end]
          ELSE [found |-> TRUE, result |-> result,
                start |-> skip_bare(dollar_pos)]

\* the loop of substitute_env_vars: `result` so far, scanning from offset `start`
RECURSIVE subst_loop(_, _, _)
subst_loop(result, start, e) ==
    LET s == subst_step(result, start, e) IN
    IF s.found THEN subst_loop(s.result, s.start, e) ELSE s.result

substitute_env_vars(command, e) == subst_loop(command, 0, e)

\* the value of a record after trimming: an enclosing pair of quotes is cut off
is_quoted(value) ==
    \/ starts_with(value, "\"") /\ ends_with(value, "\"")
    \/ starts_with(value, "'") /\ ends_with(value, "'")

\* &value[1..value.len() - 1] panics when the value is one quote character
unquote_panics(value) == is_quoted(value) /\ Len(value) < 2

unquote(value) ==
    IF is_quoted(value) THEN SubSeq(value, 2, Len(value) - 1) ELSE value

\* the loop of load_env_file over the lines of an opened file, from line k on
RECURSIVE load_lines(_, _, _, _)
load_lines(lines, k, e, count) ==
    IF k > Len(lines) THEN [outcome |-> "Ok", env |-> e, count |-> count]
    ELSE IF BadByte \in Range(lines[k])
    THEN [outcome |-> "Err", env |-> e, count |-> count]
    ELSE
      LET line == trim(lines[k])
          eqs  == {p \in 1..Len(line) : line[p] = "="}
      IN  IF line = <<>> \/ starts_with(line, "#") \/ eqs = {}
          THEN load_lines(lines, k + 1, e, count)
          ELSE
            LET eq_pos == Min(eqs) - 1
                key    == trim(SubSeq(line, 1, eq_pos))
                value  == trim(SubSeq(line, eq_pos + 2, Len(line)))
            IN  IF unquote_panics(value) \/ set_var_panics(key, unquote(value))
                THEN [outcome |-> "Panic", env |-> e, count |-> count]
                ELSE load_lines(lines, k + 1,
                                set_var(e, key, unquote(value)), count + 1)

\* load_env_file: File::open, then the lines
load_env_file(file, e) ==
    IF ~file.openable
    THEN [outcome |-> "Err", env |-> e, count |-> 0]
    ELSE load_lines(file.lines, 1, e, 0)

\* the files of the config, none when there is no config
config_files == IF config = <<>> THEN <<>> ELSE config[1].files

\* from_file calls load_env_files_with_base_path
load_env_files_with_base_path ==
    /\ loadState = "idle"
    /\ loadState' = "loading"
    /\ loadIdx' = 1
    /\ UNCHANGED <<env, config, fs, warnings, loaded>>
    /\ UNCHANGED <<runnerVars, clientVars, setupVars, substVars, legacyVars>>

\* full_path.exists() is false: the file is passed over
SkipMissingFile ==
    /\ loadState = "loading"
    /\ loadIdx <= Len(config_files)
    /\ ~fs[config_files[loadIdx]].exists
    /\ loadIdx' = loadIdx + 1
    /\ UNCHANGED <<env, config, fs, loadState, warnings, loaded>>
    /\ UNCHANGED <<runnerVars, clientVars, setupVars, substVars, legacyVars>>

\* load_env_file returns Ok(count)
LoadFileOk ==
    /\ loadState = "loading"
    /\ loadIdx <= Len(config_files)
    /\ LET name == config_files[loadIdx]
           r    == load_env_file(fs[name], env)
       IN  /\ fs[name].exists
           /\ r.outcome = "Ok"
           /\ env' = r.env
           /\ loaded' = Append(loaded, [file |-> name, count |-> r.count])
    /\ loadIdx' = loadIdx + 1
    /\ UNCHANGED <<config, fs, loadState, warnings>>
    /\ UNCHANGED <<runnerVars, clientVars, setupVars, substVars, legacyVars>>

\* load_env_file returns Err(e): the warning is printed, the loop goes on
LoadFileWarn ==
    /\ loadState = "loading"
    /\ loadIdx <= Len(config_files)
    /\ LET name == config_files[loadIdx]
           r    == load_env_file(fs[name], env)
       IN  /\ fs[name].exists
           /\ r.outcome = "Err"
           /\ env' = r.env
           /\ warnings' = Append(warnings, name)
    /\ loadIdx' = loadIdx + 1
    /\ UNCHANGED <<config, fs, loadState, loaded>>
    /\ UNCHANGED <<runnerVars, clientVars, setupVars, substVars, legacyVars>>

\* load_env_file panics: the thread unwinds out of the loader
LoadFilePanic ==
    /\ loadState = "loading"
    /\ loadIdx <= Len(config_files)
    /\ LET name == config_files[loadIdx]
           r    == load_env_file(fs[name], env)
       IN  /\ fs[name].exists
           /\ r.outcome = "Panic"
           /\ env' = r.env
    /\ loadState' = "panicked"
    /\ UNCHANGED <<config, fs, loadIdx, warnings, loaded>>
    /\ UNCHANGED <<runnerVars, clientVars, setupVars, substVars, legacyVars>>

----------------------------------------------------------------------------
(* TaskRunner *)

\* the keys of the manifests of the model; "Z" is never a key
Keys == {"A", "B", "C"}
Names == Keys \cup {"Z"}

\* the commands of the model; with E set to one blank, "$E" substitutes to blank
Cmds == {<<"a">>, <<"$", "E">>}

\* the environment the runner starts in when the Taskfile declares no env files
AmbientEnv == <<"E">> :> <<" ">>

\* the exit statuses of a child: a code, or none (the child was killed by a signal)
ExitStatuses ==
    {[has_code |-> TRUE, code |-> c] : c \in {0, 3}}
        \cup {[has_code |-> FALSE, code |-> 0]}

\* the dependency lists of at most n names, no name twice
DepLists(n) ==
    {s \in UNION {[1..k -> Names] : k \in 0..n} :
        \A i, j \in 1..Len(s) : i # j => s[i] # s[j]}

\* Option<Vec<String>>: None, or Some of a list of at most n names
DepOptions(n) == {<<>>} \cup {<<l>> : l \in DepLists(IF n < 0 THEN 0 ELSE n)}

Manifests ==
    {[k \in Keys |-> IF k = "A" THEN a ELSE IF k = "B" THEN b ELSE c] :
        a \in [cmd : Cmds, depends_on : DepOptions(MaxDeps)],
        b \in [cmd : Cmds, depends_on : DepOptions(MaxDeps - 1)],
        c \in [cmd : Cmds, depends_on : DepOptions(MaxDeps - 2)]}

\* a working directory with no package.json, no lockfile and no node_modules/.bin
BareWorld ==
    [package_json |-> [exists |-> FALSE, parses |-> FALSE, scripts |-> {}],
     yarn_lock |-> FALSE, pnpm_lock |-> FALSE,
     bin |-> [exists |-> FALSE, canonical |-> <<>>, entries |-> {}]]

\* the Results of run_task_with_deps and the errors they carry; an io::Error
\* names no task, and its dep field holds the operation that failed
NoResult == [kind |-> "None", task |-> "-", dep |-> "-", code |-> 0]
OkResult == [kind |-> "Ok", task |-> "-", dep |-> "-", code |-> 0]
Err(kind, task, dep, code) ==
    [kind |-> kind, task |-> task, dep |-> dep, code |-> code]

NoFail == [err |-> NoResult, task_name |-> "-", depth |-> 0,
           nprocs |-> 0, nattempted |-> 0]

Frame(task_name) == [task_name |-> task_name, pc |-> "entry", i |-> 1]

Top == stack[Len(stack)]

\* a cycle check that takes any task in progress for a cycle
contains_any(v, name) == v # <<>>

\* a cycle check with the condition negated
contains_negated(v, name) == ~\E k \in 1..Len(v) : v[k] = name

\* a cycle check that passes over the first name of the vector
contains_skip_first(v, name) == \E k \in 2..Len(v) : v[k] = name

\* visited.contains(&task_name.to_string())
contains(v, name) == \E k \in 1..Len(v) : v[k] = name

\* an existence check that accepts every name
has_task_always(tasks, name) == TRUE

\* TaskRunner::has_task
has_task(tasks, name) == name \in DOMAIN tasks

\* a vector that keeps the names of the call before
stale_vec == visited

\* Vec::new()
new_vec == <<>>

\* a pop that leaves the vector as it is
pop_skipped(v) == v

\* visited.pop()
pop(v) == SubSeq(v, 1, Len(v) - 1)

\* a loop that takes the dependencies last to first
deps_reversed(task) ==
    IF task.depends_on = <<>> THEN <<>>
    ELSE [k \in 1..Len(task.depends_on[1]) |->
            task.depends_on[1][Len(task.depends_on[1]) + 1 - k]]

\* a loop that stops after the first dependency
deps_first_only(task) ==
    IF task.depends_on = <<>> \/ task.depends_on[1] = <<>> THEN <<>>
    ELSE <<task.depends_on[1][1]>>

\* `if let Some(deps) = &task.depends_on { for dep in deps`: the names looped over
deps_of(task) == IF task.depends_on = <<>> THEN <<>> ELSE task.depends_on[1]

\* the tokens of the command as written, before substitution
command_parts_raw(cmd, e) == split_whitespace(cmd)

\* substituted_cmd.split_whitespace().collect()
command_parts(cmd, e) == split_whitespace(substitute_env_vars(cmd, e))

\* an emptiness check that is off by one token
parts_is_empty_off_by_one(parts) == Len(parts) <= 1

\* parts.is_empty()
parts_is_empty(parts) == parts = <<>>

\* a nested call whose Result is dropped
try_is_err_ignored(r) == FALSE

\* the `?` on the nested call: does it return from the caller
try_is_err(r) == r.kind # "Ok"

\* an error rewritten to name the calling task
propagate_renamed(r, task_name) == [r EXCEPT !.task = task_name]

\* the `?` on the nested call: the error the caller returns
propagate(r, task_name) == r

\* output.status.success()
success(status) == status.has_code /\ status.code = 0

\* a failure that carries the same code whatever the status
exit_code_generic(status) == 1

\* output.status.code().unwrap_or(-1)
exit_code(status) == IF status.has_code THEN status.code ELSE -1

\* an output taken without waiting for the child
output_ready_always(p) == TRUE

\* child.wait_with_output() completes once the child has exited
output_ready(p) == p.state = "exited"

\* the name of the PATH variable, and the texts the runner writes
PATH == <<"P", "A", "T", "H">>
Yarn == <<"y", "a", "r", "n">>
Pnpm == <<"p", "n", "p", "m">>
Npm == <<"n", "p", "m">>
RunArg == <<"r", "u", "n">>
NodeBinDir == <<"n", "o", "d", "e", "_", "m", "o", "d", "u", "l", "e", "s",
                "/", ".", "b", "i", "n", "/">>

\* env::var(name): Option<String>
env_var(e, name) == IF env_has(e, name) THEN <<e[name]>> ELSE <<>>

\* TaskRunner::check_npm_script(script_name) is Some: package.json is read and
\* parsed, and its "scripts" object holds a string under that name
check_npm_script(script_name, w) ==
    /\ w.package_json.exists
    /\ w.package_json.parses
    /\ script_name \in w.package_json.scripts

\* a choice that looks for pnpm-lock.yaml before yarn.lock
package_manager_pnpm_first(w) ==
    IF w.pnpm_lock THEN Pnpm ELSE IF w.yarn_lock THEN Yarn ELSE Npm

\* the package manager, by lockfile
package_manager(w) ==
    IF w.yarn_lock THEN Yarn ELSE IF w.pnpm_lock THEN Pnpm ELSE Npm

\* tokio::fs::try_exists("node_modules/.bin/<name>")
node_bin_exists(name, w) == w.bin.exists /\ name \in w.bin.entries

\* a resolution that looks in node_modules/.bin before the scripts
resolve_bin_first(parts, w) ==
    IF node_bin_exists(parts[1], w)
    THEN [command |-> NodeBinDir \o parts[1], args |-> Tail(parts)]
    ELSE IF check_npm_script(parts[1], w)
    THEN [command |-> package_manager(w),
          args |-> <<RunArg, parts[1]>> \o Tail(parts)]
    ELSE [command |-> parts[1], args |-> Tail(parts)]

\* `let (command, args) = ...`: the executable and its arguments, for the tokens
\* of a command that is not empty
resolve(parts, w) ==
    IF check_npm_script(parts[1], w)
    THEN [command |-> package_manager(w),
          args |-> <<RunArg, parts[1]>> \o Tail(parts)]
    ELSE IF node_bin_exists(parts[1], w)
    THEN [command |-> NodeBinDir \o parts[1], args |-> Tail(parts)]
    ELSE [command |-> parts[1], args |-> Tail(parts)]

\* the text setup_enhanced_path builds once package.json is known to exist
enhanced_text(w, e) ==
    LET dir == IF w.bin.exists /\ w.bin.canonical # <<>>
               THEN w.bin.canonical[1] ELSE <<>>
        cur == env_var(e, PATH)
    IN  IF cur = <<>> THEN dir
        ELSE (IF dir # <<>> THEN dir \o <<":">> ELSE <<>>) \o cur[1]

\* a setup that does not ask for package.json
setup_enhanced_path_ungated(w, e) ==
    IF enhanced_text(w, e) # <<>> THEN <<enhanced_text(w, e)>> ELSE <<>>

\* TaskRunner::setup_enhanced_path: Option<String>
setup_enhanced_path(w, e) ==
    IF w.package_json.exists /\ enhanced_text(w, e) # <<>>
    THEN <<enhanced_text(w, e)>>
    ELSE <<>>

\* the PATH of a child: the one set with cmd.env, or else the parent's
child_path(enhanced, e) ==
    IF enhanced # <<>> THEN enhanced ELSE env_var(e, PATH)

\* the loop of load_env_files_with_base_path is over: Ok(()); the constructor
\* that called it goes on to setup_enhanced_path and returns the runner
LoadReturn ==
    /\ loadState = "loading"
    /\ loadIdx > Len(config_files)
    /\ loadState' = "returned"
    /\ enhanced_path' = setup_enhanced_path(world, env)
    /\ UNCHANGED <<env, config, fs, loadIdx, warnings, loaded, world>>
    /\ UNCHANGED <<runnerVars, clientVars, substVars, legacyVars>>

\* a spawn that installs the enhanced PATH with env::set_var
parent_env_set_path(e, enhanced) ==
    IF enhanced # <<>> THEN set_var(e, PATH, enhanced[1]) ELSE e

\* the environment of the runner's own process after cmd.env("PATH", ..) and
\* cmd.spawn(): Command::env changes the child's environment only
parent_env(e, enhanced) == e

\* a call returns v to its caller
Return(v) ==
    /\ stack' = SubSeq(stack, 1, Len(stack) - 1)
    /\ ret' = v

\* a call returns the error e, the first of the run, after n calls of cmd.spawn()
Raise(e, n) ==
    /\ Return(e)
    /\ fail' = [err |-> e, task_name |-> Top.task_name, depth |-> Len(stack),
                nprocs |-> Len(procs), nattempted |-> n]

\* TaskRunner::run_task: a top-level call, made when no call is in progress, with
\* a new, empty visited vector; the vector of the call before is dropped
run_task(task_name) ==
    /\ loadState = "returned"
    /\ stack = <<>>
    /\ Len(calls) < budget
    /\ ~cli.exited
    /\ call' = task_name
    /\ calls' = Append(calls, [task_name |-> task_name, spawned |-> Len(procs)])
    /\ stack' = <<Frame(task_name)>>
    /\ visited' = new_vec
    /\ ret' = NoResult
    /\ fail' = NoFail
    /\ UNCHANGED <<taskfile, env, procs, attempted, cli, budget>>
    /\ UNCHANGED <<loaderVars, setupVars, substVars, legacyVars>>

\* the task is already in progress
CircularDependency ==
    /\ stack # <<>> /\ Top.pc = "entry"
    /\ contains(visited, Top.task_name)
    /\ Raise(Err("CircularDependency", Top.task_name, "-", 0), Len(attempted))
    /\ UNCHANGED <<taskfile, env, call, visited, procs, attempted, cli>>
    /\ UNCHANGED <<loaderVars, clientVars, setupVars, substVars, legacyVars>>

\* self.taskfile.tasks.get(task_name) is None
TaskNotFound ==
    /\ stack # <<>> /\ Top.pc = "entry"
    /\ ~contains(visited, Top.task_name)
    /\ Top.task_name \notin DOMAIN taskfile
    /\ Raise(Err("TaskNotFound", Top.task_name, "-", 0), Len(attempted))
    /\ UNCHANGED <<taskfile, env, call, visited, procs, attempted, cli>>
    /\ UNCHANGED <<loaderVars, clientVars, setupVars, substVars, legacyVars>>

\* the task is found: on to its dependencies
EnterTask ==
    /\ stack # <<>> /\ Top.pc = "entry"
    /\ ~contains(visited, Top.task_name)
    /\ Top.task_name \in DOMAIN taskfile
    /\ stack' = [stack EXCEPT ![Len(stack)].pc = "deps"]
    /\ UNCHANGED <<taskfile, env, call, visited, ret, procs, attempted, fail, cli>>
    /\ UNCHANGED <<loaderVars, clientVars, setupVars, substVars, legacyVars>>

\* the next dependency is not a task of the Taskfile
DependencyNotFound ==
    /\ stack # <<>> /\ Top.pc = "deps"
    /\ LET deps == deps_of(taskfile[Top.task_name]) IN
        /\ Top.i <= Len(deps)
        /\ ~has_task(taskfile, deps[Top.i])
        /\ Raise(Err("DependencyNotFound", Top.task_name, deps[Top.i], 0),
                 Len(attempted))
    /\ UNCHANGED <<taskfile, env, call, visited, procs, attempted, cli>>
    /\ UNCHANGED <<loaderVars, clientVars, setupVars, substVars, legacyVars>>

\* visited.push(task_name) and the nested call on the next dependency
CallDependency ==
    /\ stack # <<>> /\ Top.pc = "deps"
    /\ LET deps == deps_of(taskfile[Top.task_name]) IN
        /\ Top.i <= Len(deps)
        /\ has_task(taskfile, deps[Top.i])
        /\ visited' = Append(visited, Top.task_name)
        /\ stack' = Append([stack EXCEPT ![Len(stack)].pc = "await"],
                           Frame(deps[Top.i]))
    /\ UNCHANGED <<taskfile, env, call, ret, procs, attempted, fail, cli>>
    /\ UNCHANGED <<loaderVars, clientVars, setupVars, substVars, legacyVars>>

\* the nested call returned Ok: visited.pop() and on to the next dependency
DependencyDone ==
    /\ stack # <<>> /\ Top.pc = "await"
    /\ ret # NoResult
    /\ ~try_is_err(ret)
    /\ visited' = pop(visited)
    /\ stack' = [stack EXCEPT ![Len(stack)].pc = "deps",
                              ![Len(stack)].i = Top.i + 1]
    /\ ret' = NoResult
    /\ UNCHANGED <<taskfile, env, call, procs, attempted, fail, cli>>
    /\ UNCHANGED <<loaderVars, clientVars, setupVars, substVars, legacyVars>>

\* the nested call returned Err: `?` returns it from this call too
DependencyFailed ==
    /\ stack # <<>> /\ Top.pc = "await"
    /\ ret # NoResult
    /\ try_is_err(ret)
    /\ Return(propagate(ret, Top.task_name))
    /\ UNCHANGED <<taskfile, env, call, visited, procs, attempted, fail, cli>>
    /\ UNCHANGED <<loaderVars, clientVars, setupVars, substVars, legacyVars>>

\* the dependencies are done and the substituted command has no token
EmptyCommand ==
    /\ stack # <<>> /\ Top.pc = "deps"
    /\ LET task == taskfile[Top.task_name] IN
        /\ Top.i > Len(deps_of(task))
        /\ parts_is_empty(command_parts(task.cmd, env))
        /\ Raise(Err("EmptyCommand", Top.task_name, "-", 0), Len(attempted))
    /\ UNCHANGED <<taskfile, env, call, visited, procs, attempted, cli>>
    /\ UNCHANGED <<loaderVars, clientVars, setupVars, substVars, legacyVars>>

\* cmd.spawn() fails: `?` returns the io::Error, which names no task
SpawnFailed ==
    /\ stack # <<>> /\ Top.pc = "deps"
    /\ LET task == taskfile[Top.task_name] IN
        /\ Top.i > Len(deps_of(task))
        /\ ~parts_is_empty(command_parts(task.cmd, env))
    /\ attempted' = Append(attempted, Top.task_name)
    /\ Raise(Err("Io", "-", "spawn", 0), Len(attempted) + 1)
    /\ UNCHANGED <<taskfile, env, call, visited, procs, cli>>
    /\ UNCHANGED <<loaderVars, clientVars, setupVars, substVars, legacyVars>>

\* cmd.spawn() succeeds, and the reporter is started with tokio::spawn;
\* `status` is the exit status the child will end with
SpawnChild(status) ==
    /\ stack # <<>> /\ Top.pc = "deps"
    /\ LET task == taskfile[Top.task_name] IN
        /\ Top.i > Len(deps_of(task))
        /\ ~parts_is_empty(command_parts(task.cmd, env))
    /\ attempted' = Append(attempted, Top.task_name)
    /\ LET parts == command_parts(taskfile[Top.task_name].cmd, env)
           exe   == resolve(parts, world)
       IN  procs' = Append(procs,
                [task_name |-> Top.task_name, state |-> "running",
                 status |-> status, waited |-> FALSE, spinner |-> "running",
                 chain |-> [k \in 1..Len(stack) |-> stack[k].task_name],
                 command |-> exe.command, args |-> exe.args,
                 PATH |-> child_path(enhanced_path, env)])
    /\ stack' = [stack EXCEPT ![Len(stack)].pc = "wait"]
    /\ env' = parent_env(env, enhanced_path)
    /\ UNCHANGED <<taskfile, call, visited, ret, fail, cli>>
    /\ UNCHANGED <<loaderVars, clientVars, setupVars, substVars, legacyVars>>

\* a running child process exits
ChildExit ==
    /\ \E k \in 1..Len(procs) :
        /\ procs[k].state = "running"
        /\ procs' = [procs EXCEPT ![k].state = "exited"]
    /\ UNCHANGED <<taskfile, env, call, stack, visited, ret, attempted, fail, cli>>
    /\ UNCHANGED <<loaderVars, clientVars, setupVars, substVars, legacyVars>>

\* wait_with_output returns the output, the reporter is aborted, the status is 0
TaskSucceeded ==
    /\ stack # <<>> /\ Top.pc = "wait"
    /\ output_ready(procs[Len(procs)])
    /\ success(procs[Len(procs)].status)
    /\ procs' = [procs EXCEPT ![Len(procs)].waited = TRUE,
                              ![Len(procs)].spinner = "aborted"]
    /\ Return(OkResult)
    /\ UNCHANGED <<taskfile, env, call, visited, attempted, fail, cli>>
    /\ UNCHANGED <<loaderVars, clientVars, setupVars, substVars, legacyVars>>

\* wait_with_output returns the output, the reporter is aborted, the status is not 0
TaskFailed ==
    /\ stack # <<>> /\ Top.pc = "wait"
    /\ output_ready(procs[Len(procs)])
    /\ ~success(procs[Len(procs)].status)
    /\ procs' = [procs EXCEPT ![Len(procs)].waited = TRUE,
                              ![Len(procs)].spinner = "aborted"]
    /\ Raise(Err("TaskFailed", Top.task_name, "-",
                 exit_code(procs[Len(procs)].status)), Len(attempted))
    /\ UNCHANGED <<taskfile, env, call, visited, attempted, cli>>
    /\ UNCHANGED <<loaderVars, clientVars, setupVars, substVars, legacyVars>>

\* wait_with_output returns Err: `?` returns before spinner_task.abort(), and the
\* dropped JoinHandle leaves the reporter running
WaitFailed ==
    /\ stack # <<>> /\ Top.pc = "wait"
    /\ Raise(Err("Io", "-", "wait", 0), Len(attempted))
    /\ UNCHANGED <<taskfile, env, call, visited, procs, attempted, cli>>
    /\ UNCHANGED <<loaderVars, clientVars, setupVars, substVars, legacyVars>>

\* main: std::process::exit(1) on Err, the end of main on Ok
CliExit ==
    /\ call # "-" /\ stack = <<>> /\ ret # NoResult
    /\ ~cli.exited
    /\ cli' = [exited |-> TRUE, code |-> IF ret.kind # "Ok" THEN 1 ELSE 0]
    /\ UNCHANGED <<taskfile, env, call, stack, visited, ret, procs, attempted, fail>>
    /\ UNCHANGED <<loaderVars, clientVars, setupVars, substVars, legacyVars>>

----------------------------------------------------------------------------
(* TaskRunner of the taskfile-runner crate, the runner without dependencies *)

\* the manifest as the legacy crate deserializes it: its Task has the fields
\* cmd and desc, and a depends_on key of the file is ignored
legacy_tasks(m) == [k \in DOMAIN m |-> [cmd |-> m[k].cmd]]

\* arguments that keep the executable token
legacy_args_all(parts) == parts

\* `let args = &parts[1..];`
legacy_args(parts) == Tail(parts)

\* run_task of the legacy crate. `os` is what the operating system answers:
\* does spawn() succeed, does wait_with_output() succeed, and the exit status
\* of the child. The value is the Result of the call and the commands spawned.
legacy_run_task(tasks, e, task_name, os) ==
    IF task_name \in DOMAIN tasks
    THEN
      LET parts == split_whitespace(substitute_env_vars(tasks[task_name].cmd, e))
          child == [command |-> parts[1], args |-> legacy_args(parts)]
      IN  IF parts = <<>>
          THEN [ret |-> Err("EmptyCommand", task_name, "-", 0),
                spawned |-> <<>>]
          ELSE IF ~os.spawn_ok
          THEN [ret |-> Err("Io", "-", "spawn", 0), spawned |-> <<>>]
          ELSE IF ~os.wait_ok
          THEN [ret |-> Err("Io", "-", "wait", 0), spawned |-> <<child>>]
          ELSE IF success(os.status)
          THEN [ret |-> OkResult, spawned |-> <<child>>]
          ELSE [ret |-> Err("TaskFailed", task_name, "-", exit_code(os.status)),
                spawned |-> <<child>>]
    ELSE [ret |-> Err("TaskNotFound", task_name, "-", 0), spawned |-> <<>>]

\* what the operating system answered to the run of the dependency-aware
\* runner that has just returned
Answers ==
    [spawn_ok |-> procs # <<>>,
     wait_ok  |-> procs # <<>> /\ procs[Len(procs)].waited,
     status   |-> IF procs # <<>> THEN procs[Len(procs)].status
                  ELSE [has_code |-> TRUE, code |-> 0]]

\* the same task name is given to run_task of the legacy runner, built from the
\* same manifest in the same environment, and the operating system answers as
\* it did before
LegacyRunTask ==
    /\ call # "-" /\ stack = <<>>
    /\ legacy = <<>>
    /\ legacy' = <<legacy_run_task(legacy_tasks(taskfile), env, call, Answers)>>
    /\ UNCHANGED <<env, runnerVars, loaderVars, clientVars, setupVars, substVars>>

----------------------------------------------------------------------------
(* Specifications *)

\* the runner, for every manifest of the model, with no env files declared
Init ==
    /\ taskfile \in Manifests
    /\ env = AmbientEnv
    /\ call = "-"
    /\ stack = <<>>
    /\ visited = <<>>
    /\ ret = NoResult
    /\ procs = <<>>
    /\ attempted = <<>>
    /\ fail = NoFail
    /\ cli = [exited |-> FALSE, code |-> 0]
    /\ config = <<>>
    /\ fs = [f \in {} |-> 0]
    /\ loadState = "returned"
    /\ loadIdx = 1
    /\ warnings = <<>>
    /\ loaded = <<>>
    /\ calls = <<>>
    /\ budget = 1
    /\ world = BareWorld
    /\ enhanced_path = setup_enhanced_path(world, env)
    /\ subst_in = <<>>
    /\ subst_out = <<>>
    /\ scan = <<>>
    /\ legacy = <<>>

Next ==
    \/ \E task_name \in Names : run_task(task_name)
    \/ CircularDependency
    \/ TaskNotFound
    \/ EnterTask
    \/ DependencyNotFound
    \/ CallDependency
    \/ DependencyDone
    \/ DependencyFailed
    \/ EmptyCommand
    \/ SpawnFailed
    \/ \E status \in ExitStatuses : SpawnChild(status)
    \/ ChildExit
    \/ TaskSucceeded
    \/ TaskFailed
    \/ WaitFailed
    \/ CliExit

Spec == Init /\ [][Next]_vars

\* the environment files of the model
FileNames == {"e1", "e2"}

\* the lines of the model: a record, a record with an empty key, a line that is
\* not UTF-8, a record of the same key with a padded key and a quoted value; the
\* key is one the process environment already holds
EnvLines ==
    {<<"E", "=", "v">>, <<"=", "v">>, <<BadByte>>,
     <<" ", "E", " ", "=", "'", "w", "'">>}

Files ==
    {[exists |-> FALSE, openable |-> FALSE, lines |-> <<>>],
     [exists |-> TRUE, openable |-> FALSE, lines |-> <<>>]}
        \cup {[exists |-> TRUE, openable |-> TRUE, lines |-> l] :
                l \in UNION {[1..n -> EnvLines] : n \in 0..MaxLines}}

Configs ==
    {<<>>} \cup {<<[files |-> l]>> :
                    l \in UNION {[1..n -> FileNames] : n \in 0..MaxFiles}}

\* the loader, for every env config and every content of the files
InitEnv ==
    /\ taskfile = [k \in Keys |-> [cmd |-> <<"a">>, depends_on |-> <<>>]]
    /\ env = AmbientEnv
    /\ call = "-"
    /\ stack = <<>>
    /\ visited = <<>>
    /\ ret = NoResult
    /\ procs = <<>>
    /\ attempted = <<>>
    /\ fail = NoFail
    /\ cli = [exited |-> FALSE, code |-> 0]
    /\ config \in Configs
    /\ fs \in [FileNames -> Files]
    /\ loadState = "idle"
    /\ loadIdx = 1
    /\ warnings = <<>>
    /\ loaded = <<>>
    /\ calls = <<>>
    /\ budget = 1
    /\ world = BareWorld
    /\ enhanced_path = <<>>
    /\ subst_in = <<>>
    /\ subst_out = <<>>
    /\ scan = <<>>
    /\ legacy = <<>>

NextEnv ==
    \/ load_env_files_with_base_path
    \/ SkipMissingFile
    \/ LoadFileOk
    \/ LoadFileWarn
    \/ LoadFilePanic
    \/ LoadReturn

SpecEnv == InitEnv /\ [][NextEnv]_vars

\* the manifests whose commands are all the one-token command
PlainManifests == {m \in Manifests : \A k \in Keys : m[k].cmd = <<"a">>}

\* a client of the library that calls run_task several times on one TaskRunner,
\* for the same task each time, every child exiting with code 0
InitLib ==
    /\ taskfile \in PlainManifests
    /\ env = AmbientEnv
    /\ call = "-"
    /\ stack = <<>>
    /\ visited = <<>>
    /\ ret = NoResult
    /\ procs = <<>>
    /\ attempted = <<>>
    /\ fail = NoFail
    /\ cli = [exited |-> FALSE, code |-> 0]
    /\ config = <<>>
    /\ fs = [f \in {} |-> 0]
    /\ loadState = "returned"
    /\ loadIdx = 1
    /\ warnings = <<>>
    /\ loaded = <<>>
    /\ calls = <<>>
    /\ budget = MaxCalls
    /\ world = BareWorld
    /\ enhanced_path = setup_enhanced_path(world, env)
    /\ subst_in = <<>>
    /\ subst_out = <<>>
    /\ scan = <<>>
    /\ legacy = <<>>

NextLib ==
    \/ \E task_name \in Keys :
        (calls = <<>> \/ task_name = call) /\ run_task(task_name)
    \/ CircularDependency
    \/ EnterTask
    \/ DependencyNotFound
    \/ CallDependency
    \/ DependencyDone
    \/ DependencyFailed
    \/ \E status \in {st \in ExitStatuses : success(st)} : SpawnChild(status)
    \/ ChildExit
    \/ TaskSucceeded

SpecLib == InitLib /\ [][NextLib]_vars

\* the characters of the texts: the dollar sign, two identifier characters, a blank
TextChars == {"$", "E", "_", " "}

Texts == UNION {[1..n -> TextChars] : n \in 0..MaxText}

\* the environments of the substitution: E is unset, or set to a word, to the
\* empty string, to a reference to itself, to a reference to the variable `_`,
\* or to a text that ends in a dollar sign; `_` is unset or set to a word
SubstEnvs ==
    LET ValuesE == {<<"v">>, <<>>, <<"$", "E">>, <<"$", "_">>, <<" ", "$">>}
        none    == [k \in {} |-> <<>>]
        envsE   == {none} \cup {<<"E">> :> v : v \in ValuesE}
    IN  envsE \cup {e @@ (<<"_">> :> <<"w">>) : e \in envsE}

\* substitute_env_vars, for every text and every environment of the model
InitSubst ==
    /\ taskfile = [k \in Keys |-> [cmd |-> <<"a">>, depends_on |-> <<>>]]
    /\ env \in SubstEnvs
    /\ call = "-"
    /\ stack = <<>>
    /\ visited = <<>>
    /\ ret = NoResult
    /\ procs = <<>>
    /\ attempted = <<>>
    /\ fail = NoFail
    /\ cli = [exited |-> FALSE, code |-> 0]
    /\ config = <<>>
    /\ fs = [f \in {} |-> 0]
    /\ loadState = "returned"
    /\ loadIdx = 1
    /\ warnings = <<>>
    /\ loaded = <<>>
    /\ calls = <<>>
    /\ budget = 0
    /\ world = BareWorld
    /\ enhanced_path = <<>>
    /\ subst_in \in Texts
    /\ subst_out = <<>>
    /\ scan = <<>>
    /\ legacy = <<>>

\* EnvParser::substitute_env_vars(subst_in)
Substitute ==
    /\ subst_out = <<>>
    /\ subst_out' = <<substitute_env_vars(subst_in, env)>>
    /\ UNCHANGED <<env, subst_in, scan>>
    /\ UNCHANGED <<runnerVars, loaderVars, clientVars, setupVars, legacyVars>>

NextSubst == Substitute

SpecSubst == InitSubst /\ [][NextSubst]_vars

\* substitute_env_vars one loop iteration at a time
\* `let mut result = command.to_string(); let mut start = 0;`
ScanBegin ==
    /\ scan = <<>> /\ subst_out = <<>>
    /\ scan' = <<[result |-> subst_in, start |-> 0]>>
    /\ UNCHANGED <<env, subst_in, subst_out>>
    /\ UNCHANGED <<runnerVars, loaderVars, clientVars, setupVars, legacyVars>>

\* one iteration of the loop: a `$` is found at or after `start`
ScanStep ==
    /\ scan # <<>>
    /\ LET s == subst_step(scan[1].result, scan[1].start, env) IN
        /\ s.found
        /\ scan' = <<[result |-> s.result, start |-> s.start]>>
    /\ UNCHANGED <<env, subst_in, subst_out>>
    /\ UNCHANGED <<runnerVars, loaderVars, clientVars, setupVars, legacyVars>>

\* no `$` is left at or after `start`: the loop ends and `result` is returned
ScanEnd ==
    /\ scan # <<>>
    /\ ~subst_step(scan[1].result, scan[1].start, env).found
    /\ subst_out' = <<scan[1].result>>
    /\ scan' = <<>>
    /\ UNCHANGED <<env, subst_in>>
    /\ UNCHANGED <<runnerVars, loaderVars, clientVars, setupVars, legacyVars>>

NextScan == ScanBegin \/ ScanStep \/ ScanEnd

\* the function runs on one thread that is not stopped: a step that can be
\* taken is taken
SpecScan == InitSubst /\ [][NextScan]_vars /\ WF_vars(NextScan)

\* the lines of one environment file: a record, a comment that holds `=`, a
\* line with no `=`, a blank line, a record with a padded key and a quoted
\* value, a record whose value holds `=`, a record with an empty value, a
\* record with an empty key, records whose value is one quote character or has
\* quotes that do not match, a line that is not UTF-8
FileLines ==
    {<<"K", "=", "v">>,
     <<"#", "K", "=", "w">>,
     <<"K">>,
     <<" ">>,
     <<" ", "J", " ", "=", " ", "'", "w", "'", " ">>,
     <<"K", "=", "v", "=", "w">>,
     <<"J", "=">>,
     <<"=", "v">>,
     <<"K", "=", "'">>,
     <<"K", "=", "'", "v", "\"">>,
     <<BadByte>>}

\* load_env_file on one declared file that exists and can be opened, for every
\* content of at most MaxLines lines
InitFile ==
    /\ taskfile = [k \in Keys |-> [cmd |-> <<"a">>, depends_on |-> <<>>]]
    /\ env = AmbientEnv
    /\ call = "-"
    /\ stack = <<>>
    /\ visited = <<>>
    /\ ret = NoResult
    /\ procs = <<>>
    /\ attempted = <<>>
    /\ fail = NoFail
    /\ cli = [exited |-> FALSE, code |-> 0]
    /\ config = <<[files |-> <<"e1">>]>>
    /\ \E l \in UNION {[1..n -> FileLines] : n \in 0..MaxLines} :
        fs = [f \in {"e1"} |-> [exists |-> TRUE, openable |-> TRUE, lines |-> l]]
    /\ loadState = "idle"
    /\ loadIdx = 1
    /\ warnings = <<>>
    /\ loaded = <<>>
    /\ calls = <<>>
    /\ budget = 0
    /\ world = BareWorld
    /\ enhanced_path = <<>>
    /\ subst_in = <<>>
    /\ subst_out = <<>>
    /\ scan = <<>>
    /\ legacy = <<>>

NextFile ==
    \/ load_env_files_with_base_path
    \/ LoadFileOk
    \/ LoadFileWarn
    \/ LoadFilePanic
    \/ LoadReturn

SpecFile == InitFile /\ [][NextFile]_vars

\* the working directories of the model: package.json is absent, is not JSON,
\* or holds a "scripts" object with string values under the names given; the
\* lockfiles are there or not; node_modules/.bin is absent or holds the entries
\* given, and canonicalize() gives "/n" or fails
Worlds ==
    [package_json : {[exists |-> FALSE, parses |-> FALSE, scripts |-> {}],
                     [exists |-> TRUE, parses |-> FALSE, scripts |-> {}],
                     [exists |-> TRUE, parses |-> TRUE, scripts |-> {}],
                     [exists |-> TRUE, parses |-> TRUE, scripts |-> {<<"a">>}]},
     yarn_lock : BOOLEAN,
     pnpm_lock : BOOLEAN,
     bin : {[exists |-> FALSE, canonical |-> <<>>, entries |-> {}]}
             \cup [exists : {TRUE}, canonical : {<<>>, << <<"/", "n">> >>},
                   entries : {{}, {<<"a">>}}]]

\* the commands of the model that is about the executable
ResolveCmds == {<<"a">>, <<"a", " ", "b">>, <<"b">>, <<"$", "E">>}

\* the environments the runner is constructed in: PATH is unset or set
ParentEnvs == {AmbientEnv, AmbientEnv @@ (PATH :> <<"/", "u">>)}

\* the CLI run of a task with no dependencies, for every working directory
InitResolve ==
    /\ \E c \in ResolveCmds :
        taskfile = [k \in Keys |-> [cmd |-> c, depends_on |-> <<>>]]
    /\ env \in ParentEnvs
    /\ call = "-"
    /\ stack = <<>>
    /\ visited = <<>>
    /\ ret = NoResult
    /\ procs = <<>>
    /\ attempted = <<>>
    /\ fail = NoFail
    /\ cli = [exited |-> FALSE, code |-> 0]
    /\ config = <<>>
    /\ fs = [f \in {} |-> 0]
    /\ loadState = "returned"
    /\ loadIdx = 1
    /\ warnings = <<>>
    /\ loaded = <<>>
    /\ calls = <<>>
    /\ budget = 1
    /\ world \in Worlds
    /\ enhanced_path = setup_enhanced_path(world, env)
    /\ subst_in = <<>>
    /\ subst_out = <<>>
    /\ scan = <<>>
    /\ legacy = <<>>

NextResolve ==
    \/ run_task("A")
    \/ EnterTask
    \/ EmptyCommand
    \/ SpawnFailed
    \/ \E status \in ExitStatuses : SpawnChild(status)
    \/ ChildExit
    \/ TaskSucceeded
    \/ TaskFailed
    \/ WaitFailed
    \/ CliExit

SpecResolve == InitResolve /\ [][NextResolve]_vars

\* the working directories with no package.json and no node_modules/.bin
LegacyWorlds ==
    {w \in Worlds : ~w.package_json.exists /\ ~w.bin.exists}

\* the manifests in which no task lists a dependency
LegacyManifests ==
    {[k \in Keys |-> IF k = "A" THEN a ELSE IF k = "B" THEN b ELSE c] :
        a \in [cmd : ResolveCmds, depends_on : {<<>>, << <<>> >>}],
        b \in [cmd : Cmds, depends_on : {<<>>, << <<>> >>}],
        c \in [cmd : {<<"a">>}, depends_on : {<<>>, << <<>> >>}]}

\* one run_task call on the dependency-aware runner, then the same call on the
\* legacy runner
InitLegacy ==
    /\ taskfile \in LegacyManifests
    /\ env \in ParentEnvs
    /\ call = "-"
    /\ stack = <<>>
    /\ visited = <<>>
    /\ ret = NoResult
    /\ procs = <<>>
    /\ attempted = <<>>
    /\ fail = NoFail
    /\ cli = [exited |-> FALSE, code |-> 0]
    /\ config = <<>>
    /\ fs = [f \in {} |-> 0]
    /\ loadState = "returned"
    /\ loadIdx = 1
    /\ warnings = <<>>
    /\ loaded = <<>>
    /\ calls = <<>>
    /\ budget = 1
    /\ world \in LegacyWorlds
    /\ enhanced_path = setup_enhanced_path(world, env)
    /\ subst_in = <<>>
    /\ subst_out = <<>>
    /\ scan = <<>>
    /\ legacy = <<>>

NextLegacy ==
    \/ \E task_name \in Names : run_task(task_name)
    \/ TaskNotFound
    \/ EnterTask
    \/ EmptyCommand
    \/ SpawnFailed
    \/ \E status \in ExitStatuses : SpawnChild(status)
    \/ ChildExit
    \/ TaskSucceeded
    \/ TaskFailed
    \/ WaitFailed
    \/ LegacyRunTask

SpecLegacy == InitLegacy /\ [][NextLegacy]_vars

\* the working directories of the model of a whole run: a bare one, and one
\* with a package.json and a node_modules/.bin
MainWorlds ==
    {BareWorld,
     [package_json |-> [exists |-> TRUE, parses |-> TRUE, scripts |-> {}],
      yarn_lock |-> FALSE, pnpm_lock |-> FALSE,
      bin |-> [exists |-> TRUE, canonical |-> << <<"/", "n">> >>,
               entries |-> {}]]}

\* its manifests: A lists at most one name, B and C none
MainManifests ==
    {m \in Manifests :
        /\ Len(deps_of(m["A"])) <= 1
        /\ \A k \in {"B", "C"} :
            m[k] = [cmd |-> <<"a">>, depends_on |-> <<>>]}

\* A whole run of the CLI: from_file loads the declared environment file and
\* sets up the PATH, then main calls run_task.
InitMain ==
    /\ taskfile \in MainManifests
    /\ env = AmbientEnv
    /\ call = "-"
    /\ stack = <<>>
    /\ visited = <<>>
    /\ ret = NoResult
    /\ procs = <<>>
    /\ attempted = <<>>
    /\ fail = NoFail
    /\ cli = [exited |-> FALSE, code |-> 0]
    /\ config = <<[files |-> <<"e1">>]>>
    /\ \E f \in Files : fs = [n \in {"e1"} |-> f]
    /\ loadState = "idle"
    /\ loadIdx = 1
    /\ warnings = <<>>
    /\ loaded = <<>>
    /\ calls = <<>>
    /\ budget = 1
    /\ world \in MainWorlds
    /\ enhanced_path = <<>>
    /\ subst_in = <<>>
    /\ subst_out = <<>>
    /\ scan = <<>>
    /\ legacy = <<>>

NextMain ==
    \/ load_env_files_with_base_path
    \/ SkipMissingFile
    \/ LoadFileOk
    \/ LoadFileWarn
    \/ LoadFilePanic
    \/ LoadReturn
    \/ \E task_name \in Names : run_task(task_name)
    \/ CircularDependency
    \/ TaskNotFound
    \/ EnterTask
    \/ DependencyNotFound
    \/ CallDependency
    \/ DependencyDone
    \/ DependencyFailed
    \/ EmptyCommand
    \/ SpawnFailed
    \/ \E status \in ExitStatuses : SpawnChild(status)
    \/ ChildExit
    \/ TaskSucceeded
    \/ TaskFailed
    \/ WaitFailed
    \/ CliExit

SpecMain == InitMain /\ [][NextMain]_vars

\* The CLI on manifests in which every task may list dependencies, so that the
\* dependencies can form a ring through all the tasks: each task lists at most
\* MaxFan names and the manifest holds at most as many listed names as tasks.
RingManifests ==
    {m \in [Keys -> [cmd : Cmds, depends_on : DepOptions(MaxFan)]] :
        /\ m["B"].cmd = <<"a">>
        /\ m["C"].cmd = <<"a">>
        /\ Len(deps_of(m["A"])) + Len(deps_of(m["B"])) + Len(deps_of(m["C"]))
                <= Cardinality(Keys)}

InitFair ==
    /\ taskfile \in RingManifests
    /\ env = AmbientEnv
    /\ call = "-"
    /\ stack = <<>>
    /\ visited = <<>>
    /\ ret = NoResult
    /\ procs = <<>>
    /\ attempted = <<>>
    /\ fail = NoFail
    /\ cli = [exited |-> FALSE, code |-> 0]
    /\ config = <<>>
    /\ fs = [f \in {} |-> 0]
    /\ loadState = "returned"
    /\ loadIdx = 1
    /\ warnings = <<>>
    /\ loaded = <<>>
    /\ calls = <<>>
    /\ budget = 1
    /\ world = BareWorld
    /\ enhanced_path = setup_enhanced_path(world, env)
    /\ subst_in = <<>>
    /\ subst_out = <<>>
    /\ scan = <<>>
    /\ legacy = <<>>

\* the steps the runner's future takes when it is polled: every step of
\* run_task_with_deps but the failure of wait_with_output, which is the
\* operating system's to choose
RunnerStep ==
    \/ CircularDependency
    \/ TaskNotFound
    \/ EnterTask
    \/ DependencyNotFound
    \/ CallDependency
    \/ DependencyDone
    \/ DependencyFailed
    \/ EmptyCommand
    \/ SpawnFailed
    \/ \E status \in ExitStatuses : SpawnChild(status)
    \/ TaskSucceeded
    \/ TaskFailed

\* The runtime keeps polling the future run_task returned (main awaits it), and
\* every spawned child process eventually exits.
SpecFair ==
    InitFair /\ [][Next]_vars /\ WF_vars(RunnerStep) /\ WF_vars(ChildExit)

----------------------------------------------------------------------------
(* Properties *)

\* run_task has returned; ret is its Result
Done == call # "-" /\ stack = <<>>

\* the names task n loops over as its dependencies
Deps(n) == deps_of(taskfile[n])

\* the command of task n has no token after substitution
Blank(n) == split_whitespace(substitute_env_vars(taskfile[n].cmd, env)) = <<>>

ExitedZero == [has_code |-> TRUE, code |-> 0]

\* the child has exited and the runner has its output
Reaped(p) == p.state = "exited" /\ p.waited

IsPrefix(s, t) == Len(s) <= Len(t) /\ s = SubSeq(t, 1, Len(s))

\* A depends on B, B depends on C, C depends on nothing
IsChain == Deps("A") = <<"B">> /\ Deps("B") = <<"C">> /\ Deps("C") = <<>>

\* C1: a task's command is spawned only after every task of its dependency list
\* has exited with code 0 earlier in the call; in the chain A -> B -> C the spawn
\* order is C, B, A, and nothing is spawned after a child that does not exit with 0.
C1_DepsBeforeCommand ==
    /\ \A k \in 1..Len(procs) :
        \A d \in Range(Deps(procs[k].task_name)) :
            \E j \in 1..(k - 1) :
                /\ procs[j].task_name = d
                /\ Reaped(procs[j])
                /\ procs[j].status = ExitedZero
    /\ (IsChain /\ call = "A") =>
        /\ IsPrefix(attempted, <<"C", "B", "A">>)
        /\ \A k \in 1..Len(procs) :
            procs[k].status # ExitedZero => Len(attempted) = k
        /\ (Done /\ ret.kind = "Ok") => attempted = <<"C", "B", "A">>

C1_Witness ==
    /\ IsChain /\ call = "A" /\ Done /\ ret.kind = "Ok"
    /\ Len(procs) = 3
    /\ procs[1].task_name = "C" /\ procs[2].task_name = "B"
    /\ procs[3].task_name = "A"

\* C2: once run_task has returned, every reporter that was started has been
\* cancelled, on each exit path (exit 0, nonzero exit, wait error).
C2_ReporterCancelled ==
    Done => \A k \in 1..Len(procs) : procs[k].spinner = "aborted"

FirstMissing(deps) ==
    LET missing == {i \in 1..Len(deps) : deps[i] \notin DOMAIN taskfile}
    IN  IF missing = {} THEN 0 ELSE Min(missing)

\* C4 as claimed: when the root task lists a name that is no task, run_task
\* returns DependencyNotFound naming that name and the task, and no child is spawned.
C4_Claimed ==
    (Done /\ call \in Keys /\ FirstMissing(Deps(call)) > 0) =>
        /\ ret.kind = "DependencyNotFound"
        /\ ret.task = call
        /\ ret.dep \in Range(Deps(call)) \ Keys
        /\ procs = <<>>

\* C4: when the root task lists a name that is no task, the run fails and the
\* task's own command is never spawned; when that name is the first of the list,
\* the Result is DependencyNotFound naming it and the task, and nothing is
\* spawned; otherwise the dependencies before it run first, and the Result is
\* DependencyNotFound (naming the first missing name) unless one of them failed.
C4_MissingDependency ==
    (call \in Keys /\ FirstMissing(Deps(call)) > 0) =>
        LET z == FirstMissing(Deps(call))
            e == Err("DependencyNotFound", call, Deps(call)[z], 0)
        IN  /\ call \notin Range(attempted)
            /\ Done =>
                /\ ret.kind # "Ok"
                /\ z = 1 => (ret = e /\ attempted = <<>>)
                /\ fail.depth = 1 => ret = e
                /\ (ret.kind = "DependencyNotFound" /\ ret.task = call) => ret = e

C4_Witness ==
    /\ Done /\ call = "A" /\ Deps("A") = <<"B", "Z">>
    /\ ret = Err("DependencyNotFound", "A", "Z", 0)
    /\ attempted = <<"B">>
    /\ Len(procs) = 1

\* C5 as claimed: when the root task A lists B and B lists A, run_task returns
\* CircularDependency naming A or B, and no child is spawned.
C5_Claimed ==
    \A b \in Keys \ {call} :
        (Done /\ call \in Keys /\ b \in Range(Deps(call))
              /\ call \in Range(Deps(b))) =>
            /\ ret.kind = "CircularDependency"
            /\ ret.task \in {call, b}
            /\ procs = <<>>

\* C5: when the root task A lists B and B lists A, the run fails and neither A's
\* nor B's own command is ever spawned; when B is the first name A lists and A
\* the first name B lists, the Result is CircularDependency naming A and nothing
\* is spawned.
C5_MutualDependency ==
    \A b \in Keys \ {call} :
        (call \in Keys /\ b \in Range(Deps(call)) /\ call \in Range(Deps(b))) =>
            /\ call \notin Range(attempted)
            /\ b \notin Range(attempted)
            /\ Done =>
                /\ ret.kind # "Ok"
                /\ (Deps(call)[1] = b /\ Deps(b)[1] = call) =>
                    /\ ret = Err("CircularDependency", call, "-", 0)
                    /\ attempted = <<>>

C5_Witness ==
    /\ Done /\ call = "A" /\ Deps("A") = <<"C", "B">> /\ Deps("B") = <<"A">>
    /\ ret = Err("CircularDependency", "A", "-", 0)
    /\ attempted = <<"C">>
    /\ Len(procs) = 1

\* C6 as claimed: run_task on a task whose substituted command is blank returns
\* EmptyCommand naming the task, and no spawn is attempted during the call.
C6_Claimed ==
    (Done /\ call \in Keys /\ Blank(call)) =>
        /\ ret = Err("EmptyCommand", call, "-", 0)
        /\ attempted = <<>>

\* C6: no spawn is ever attempted for a task whose substituted command is blank,
\* and run_task on such a task fails; with no dependencies the Result is
\* EmptyCommand naming the task and no spawn is attempted at all; with
\* dependencies they run first, and the Result is EmptyCommand naming the task
\* unless a dependency is missing or fails.
C6_EmptyCommand ==
    /\ \A n \in Keys : Blank(n) => n \notin Range(attempted)
    /\ (Done /\ call \in Keys /\ Blank(call)) =>
        LET e == Err("EmptyCommand", call, "-", 0)
        IN  /\ ret.kind # "Ok"
            /\ Deps(call) = <<>> => (ret = e /\ attempted = <<>>)
            /\ (fail.depth = 1 /\ ret.kind # "DependencyNotFound") => ret = e

C6_Witness ==
    /\ Done /\ call = "A" /\ Blank("A") /\ Deps("A") = <<"B">>
    /\ ret = Err("EmptyCommand", "A", "-", 0)
    /\ attempted = <<"B">>

\* C7: loading never ends in a panic, and once it has returned every declared
\* file that exists was either loaded or reported with a warning.
C7_LoadNeverAborts ==
    /\ loadState # "panicked"
    /\ loadState = "returned" =>
        Len(loaded) + Len(warnings)
            = Cardinality({i \in 1..Len(config_files) : fs[config_files[i]].exists})

\* C8 as claimed: run_task on a task with no dependencies executes exactly one
\* child process (a spawn that fails is counted as the one execution).
C8_Claimed ==
    (Done /\ call \in Keys /\ Deps(call) = <<>>) => Len(attempted) = 1

\* C8: run_task on a task with no dependencies attempts at most one spawn: none
\* when the substituted command is blank, one otherwise, and one child runs
\* unless the command is blank or the spawn fails.
C8_OneChild ==
    (call \in Keys /\ Deps(call) = <<>>) =>
        /\ Len(attempted) <= 1
        /\ Len(procs) <= Len(attempted)
        /\ Done =>
            /\ Len(attempted) = 1 <=> ~Blank(call)
            /\ Len(procs) = 1 <=>
                (~Blank(call) /\ ret # Err("Io", "-", "spawn", 0))

C8_Witness ==
    /\ Done /\ call = "A" /\ taskfile["A"].depends_on = <<>>
    /\ Len(procs) = 1 /\ procs[1].task_name = "A"
    /\ ret.kind = "Ok"

\* C9: a child that exits with a nonzero code c makes run_task fail carrying c,
\* and carrying -1 when the status has no code; run_task succeeds only when
\* every child exited with code 0; the CLI exits nonzero when run_task failed.
C9_ExitCode ==
    /\ \A k \in 1..Len(procs) :
        (Reaped(procs[k]) /\ procs[k].status # ExitedZero) =>
            ret = Err("TaskFailed", procs[k].task_name, "-",
                      IF procs[k].status.has_code
                      THEN procs[k].status.code ELSE -1)
    /\ (Done /\ ret.kind = "Ok") =>
        /\ procs # <<>>
        /\ \A k \in 1..Len(procs) :
            Reaped(procs[k]) /\ procs[k].status = ExitedZero
    /\ (cli.exited /\ ret.kind # "Ok") => cli.code # 0

C9_Witness ==
    /\ \E k \in 1..Len(procs) :
        /\ Reaped(procs[k])
        /\ procs[k].status = [has_code |-> TRUE, code |-> 3]
    /\ ret.kind = "TaskFailed" /\ ret.code = 3
    /\ cli.exited /\ cli.code = 1

\* C10: at most one child is running at any moment, and when a child is spawned
\* the exit of every child spawned before it has been observed.
C10_OneChildAtATime ==
    /\ Cardinality({k \in 1..Len(procs) : procs[k].state = "running"}) <= 1
    /\ \A k \in 1..(Len(procs) - 1) : Reaped(procs[k])

C10_Witness ==
    /\ call = "A" /\ Deps("A") = <<"B", "C">>
    /\ Deps("B") = <<>> /\ Deps("C") = <<>>
    /\ Len(procs) = 2
    /\ procs[1].task_name = "B" /\ Reaped(procs[1])
    /\ procs[2].task_name = "C" /\ procs[2].state = "running"

\* the dependency list of task n as the manifest declares it
Declared(n) ==
    IF taskfile[n].depends_on = <<>> THEN <<>> ELSE taskfile[n].depends_on[1]

\* the children spawned by the top-level call in progress, or by the last one
CurrentCall ==
    IF calls = <<>> THEN {}
    ELSE (calls[Len(calls)].spawned + 1)..Len(procs)

\* the place of name d in the list l, 0 when l does not hold it
Place(l, d) ==
    IF \E i \in 1..Len(l) : l[i] = d
    THEN CHOOSE i \in 1..Len(l) : l[i] = d
    ELSE 0

\* the chain of calls under which child k was spawned goes through the call of
\* dependency d made by the call at the end of the chain c
OnBehalf(k, c, d) ==
    /\ Len(procs[k].chain) > Len(c)
    /\ SubSeq(procs[k].chain, 1, Len(c)) = c
    /\ procs[k].chain[Len(c) + 1] = d

\* C11: within a top-level call, for a call of a task with the declared list
\* [d1, ..., dn], every child spawned on behalf of di (by di or below it) is
\* spawned before, and has exited before, any child on behalf of a later dj
\* exists, and by then di's own command has run and exited with code 0.
C11_DeclaredOrder ==
    \A k \in CurrentCall :
        \A L \in 1..(Len(procs[k].chain) - 1) :
            LET c    == SubSeq(procs[k].chain, 1, L)
                deps == Declared(c[L])
                b    == Place(deps, procs[k].chain[L + 1])
            IN  /\ b > 0
                /\ \A a \in 1..(b - 1) :
                    /\ \A j \in CurrentCall :
                        OnBehalf(j, c, deps[a]) =>
                            j < k /\ procs[j].state = "exited"
                    /\ \E j \in CurrentCall :
                        /\ j < k
                        /\ procs[j].chain = Append(c, deps[a])
                        /\ Reaped(procs[j])
                        /\ procs[j].status = ExitedZero

C11_Witness ==
    /\ call = "A" /\ Declared("A") = <<"B", "C">> /\ Declared("B") = <<"C">>
    /\ Len(procs) = 3
    /\ procs[1].chain = <<"A", "B", "C">>
    /\ procs[2].chain = <<"A", "B">>
    /\ procs[3].chain = <<"A", "C">> /\ procs[3].state = "running"

\* C13: run_task on a name that is no key of the manifest spawns nothing and
\* attempts no spawn, and returns TaskNotFound naming that name.
C13_TaskNotFound ==
    (call # "-" /\ call \notin DOMAIN taskfile) =>
        /\ procs = <<>>
        /\ attempted = <<>>
        /\ Len(stack) <= 1
        /\ Done => ret = Err("TaskNotFound", call, "-", 0)

C13_Witness ==
    /\ Done /\ call = "Z"
    /\ ret = Err("TaskNotFound", "Z", "-", 0)
    /\ procs = <<>>
    /\ cli.exited /\ cli.code = 1

\* the names of the calls that wait for the innermost call, outermost first
Ancestors == [k \in 1..(Len(stack) - 1) |-> stack[k].task_name]

\* C20: a top-level call starts with an empty vector; while no call has failed,
\* the vector holds the ancestors of the innermost call, root first (and that
\* call's own name between the return of a nested call and the pop), with no
\* name twice; after the pop the vector is again what it was before the push.
C20_InProgressStack ==
    /\ (Len(stack) = 1 /\ Top.pc = "entry") => visited = <<>>
    /\ (stack # <<>> /\ fail = NoFail) =>
        /\ Top.pc # "await" => visited = Ancestors
        /\ Top.pc = "await" => visited = Append(Ancestors, Top.task_name)
        /\ \A i, j \in 1..Len(visited) : i # j => visited[i] # visited[j]

C20_Witness ==
    /\ fail = NoFail /\ call = "A"
    /\ Len(stack) = 2 /\ Top.task_name = "B" /\ Top.pc = "deps" /\ Top.i = 2
    /\ visited = <<"A">>
    /\ Len(procs) = 1 /\ procs[1].chain = <<"A", "B", "C">>

\* the number of dependency paths from task n down to task t, of at most
\* `fuel` tasks each
RECURSIVE Walks(_, _, _)
RECURSIVE WalksFrom(_, _, _, _)
Walks(n, t, fuel) ==
    IF fuel = 0 \/ n \notin DOMAIN taskfile THEN 0
    ELSE (IF n = t THEN 1 ELSE 0) + WalksFrom(Declared(n), 1, t, fuel - 1)

WalksFrom(deps, i, t, fuel) ==
    IF i > Len(deps) THEN 0
    ELSE Walks(deps[i], t, fuel) + WalksFrom(deps, i + 1, t, fuel)

\* how many children the call in progress, or the last one, spawned for task t
Runs(t) ==
    Cardinality({k \in CurrentCall : procs[k].task_name = t})

\* C12: when a top-level call returns Ok, the first or a later one, it has
\* spawned for every task as many children as there are dependency paths from
\* the root to that task, whatever the calls before it spawned.
C12_NeverCached ==
    (Done /\ ret.kind = "Ok") =>
        \A t \in Keys : Runs(t) = Walks(call, t, Cardinality(Keys))

C12_Witness ==
    /\ Done /\ ret.kind = "Ok"
    /\ Declared("A") = <<"B", "C">> /\ Declared("B") = <<"C">>
    /\ Len(calls) = 2 /\ calls[2].spawned = 4
    /\ Len(procs) = 8
    /\ Runs("C") = 2 /\ procs[5].task_name = "C" /\ procs[7].task_name = "C"

\* position p of the text t starts a token: a dollar sign and an identifier
\* character after it
TokenAt(t, p) == t[p] = "$" /\ p < Len(t) /\ t[p + 1] \in IdentChars

\* the last position of the token that starts at p: the name is the longest run
\* of identifier characters after the dollar sign
TokenLast(t, p) ==
    LET stops == {q \in (p + 1)..Len(t) : t[q] \notin IdentChars}
    IN  IF stops = {} THEN Len(t) ELSE Min(stops) - 1

TokenName(t, p) == SubSeq(t, p + 1, TokenLast(t, p))

\* the text t from position p on, read once from left to right: a token of a
\* defined name gives the value, every other character gives itself
RECURSIVE OnePass(_, _, _)
OnePass(t, p, e) ==
    IF p > Len(t) THEN <<>>
    ELSE IF TokenAt(t, p)
    THEN (IF TokenName(t, p) \in DOMAIN e
          THEN e[TokenName(t, p)]
          ELSE SubSeq(t, p, TokenLast(t, p)))
             \o OnePass(t, TokenLast(t, p) + 1, e)
    ELSE <<t[p]>> \o OnePass(t, p + 1, e)

\* C14: substitute_env_vars returns the text in which every token `$NAME`, NAME
\* the longest run of identifier characters after the dollar sign, is replaced
\* by NAME's value when NAME is set and kept when it is not, and every other
\* character is kept in its place.
C14_Substitution ==
    subst_out # <<>> => subst_out[1] = OnePass(subst_in, 1, env)

C14_Witness ==
    /\ subst_in = <<" ", "$", "E", " ">>
    /\ env = <<"E">> :> <<"v">>
    /\ subst_out = << <<" ", "v", " ">> >>

\* C15: for every token of a set variable in the text, the output is the
\* substituted text before the token, then the variable's value as it is, then
\* the substituted text after the token; a `$NAME` inside the value stays, also
\* when NAME is set.
C15_ValueNotRescanned ==
    subst_out # <<>> =>
        \A p \in 1..Len(subst_in) :
            (TokenAt(subst_in, p) /\ TokenName(subst_in, p) \in DOMAIN env) =>
                subst_out[1] =
                    substitute_env_vars(SubSeq(subst_in, 1, p - 1), env)
                        \o env[TokenName(subst_in, p)]
                        \o substitute_env_vars(
                               SubSeq(subst_in, TokenLast(subst_in, p) + 1,
                                      Len(subst_in)), env)

C15_Witness ==
    /\ subst_in = <<"$", "E", "$", "_">>
    /\ env = (<<"E">> :> <<"$", "_">>) @@ (<<"_">> :> <<"w">>)
    /\ subst_out = << <<"$", "_", "w">> >>

\* a line that is a record: trimmed, it is not empty, does not begin with `#`
\* and holds `=`
IsRecord(l) ==
    /\ trim(l) # <<>>
    /\ trim(l)[1] # "#"
    /\ "=" \in Range(trim(l))

FirstEq(l) == Min({p \in 1..Len(trim(l)) : trim(l)[p] = "="})

\* the key of a record: the trimmed text before the first `=`
KeyOf(l) == trim(SubSeq(trim(l), 1, FirstEq(l) - 1))

\* the value of a record: the trimmed text after the first `=`, without the
\* pair of quotes around it when there is one
ValueOf(l) ==
    LET v == trim(SubSeq(trim(l), FirstEq(l) + 1, Len(trim(l))))
    IN  IF Len(v) >= 2 /\ v[1] = v[Len(v)] /\ v[1] \in {"'", "\""}
        THEN SubSeq(v, 2, Len(v) - 1) ELSE v

\* C16: load_env_file, on a file whose lines are all text, installs a variable
\* for each record line and for no other line, and returns the number of record
\* lines; afterwards the key of each record is set to the value of the last
\* record of that key.
C16_Claimed ==
    LET lines   == fs["e1"].lines
        records == {k \in 1..Len(lines) : IsRecord(lines[k])}
    IN  (config_files = <<"e1">> /\ loadState # "idle"
            /\ \A k \in 1..Len(lines) : BadByte \notin Range(lines[k])) =>
            /\ loadState # "panicked"
            /\ loadIdx > 1 =>
                /\ loaded = <<[file |-> "e1", count |-> Cardinality(records)]>>
                /\ \A k \in records :
                    /\ KeyOf(lines[k]) \in DOMAIN env
                    /\ (\A j \in records :
                            j > k => KeyOf(lines[j]) # KeyOf(lines[k]))
                        => env[KeyOf(lines[k])] = ValueOf(lines[k])
                /\ DOMAIN env =
                    DOMAIN AmbientEnv \cup {KeyOf(lines[k]) : k \in records}

\* the files the loader printed a line for, in the order of `log`
FilesOf(log, field) == [i \in 1..Len(log) |-> IF field THEN log[i].file ELSE log[i]]

\* s is t with some elements left out
RECURSIVE IsSubseq(_, _)
IsSubseq(s, t) ==
    IF s = <<>> THEN TRUE
    ELSE IF t = <<>> THEN FALSE
    ELSE IF s[1] = t[1] THEN IsSubseq(Tail(s), Tail(t))
    ELSE IsSubseq(s, Tail(t))

\* how many times the loader has processed the file f
TimesProcessed(f) ==
    Cardinality({i \in 1..Len(loaded) : loaded[i].file = f})
        + Cardinality({i \in 1..Len(warnings) : warnings[i] = f})

\* the records the loader installs from the i-th declared file: those of a file
\* that exists and opens, up to its first line that is not text
Installed(i) ==
    LET f == fs[config_files[i]] IN
    IF ~(f.exists /\ f.openable) THEN {}
    ELSE {k \in 1..Len(f.lines) :
            /\ \A j \in 1..k : BadByte \notin Range(f.lines[j])
            /\ IsRecord(f.lines[k])}

\* the places <<i, k>> of the installed records that assign `key`
Assignments(key) ==
    {ik \in (1..Len(config_files)) \X (1..MaxLines) :
        /\ ik[2] \in Installed(ik[1])
        /\ KeyOf(fs[config_files[ik[1]]].lines[ik[2]]) = key}

\* the last of them: in the last declared file, and the last line there
LastAssignment(key) ==
    CHOOSE ik \in Assignments(key) :
        \A jl \in Assignments(key) :
            jl[1] < ik[1] \/ (jl[1] = ik[1] /\ jl[2] <= ik[2])

\* C17 as claimed: no file is processed twice, and after loading every variable
\* holds the value of the last installed record that assigns it.
C17_Claimed ==
    /\ \A f \in FileNames : TimesProcessed(f) <= 1
    /\ loadState = "returned" =>
        \A key \in DOMAIN env :
            Assignments(key) # {} =>
                env[key] = ValueOf(fs[config_files[LastAssignment(key)[1]]]
                                      .lines[LastAssignment(key)[2]])

\* C17: the declarations are processed in declared order, each declaration of a
\* file that exists once, so that a file declared twice is processed twice;
\* after loading every variable holds the value of the last installed record
\* that assigns it, the last declaration winning over earlier ones and over the
\* value the process environment held, and a variable that no installed record
\* assigns is as it was.
C17_LastRecordWins ==
    /\ loadState \in {"loading", "returned"} =>
        /\ \A f \in FileNames :
            TimesProcessed(f) =
                Cardinality({i \in 1..(loadIdx - 1) :
                                config_files[i] = f /\ fs[f].exists})
        /\ IsSubseq(FilesOf(loaded, TRUE), SubSeq(config_files, 1, loadIdx - 1))
        /\ IsSubseq(FilesOf(warnings, FALSE), SubSeq(config_files, 1, loadIdx - 1))
    /\ loadState = "returned" =>
        /\ DOMAIN env =
            DOMAIN AmbientEnv \cup {key \in {<<"E">>} : Assignments(key) # {}}
        /\ \A key \in DOMAIN env :
            IF Assignments(key) # {}
            THEN env[key] = ValueOf(fs[config_files[LastAssignment(key)[1]]]
                                       .lines[LastAssignment(key)[2]])
            ELSE env[key] = AmbientEnv[key]

C17_Witness ==
    /\ loadState = "returned"
    /\ config_files = <<"e1", "e2">>
    /\ fs["e1"].lines = << <<"E", "=", "v">> >>
    /\ fs["e2"].lines = << <<" ", "E", " ", "=", "'", "w", "'">>, <<BadByte>> >>
    /\ Len(loaded) = 1 /\ warnings = <<"e2">>
    /\ env[<<"E">>] = <<"w">>

\* the tokens of the command of task n after substitution
Tokens(n) == split_whitespace(substitute_env_vars(taskfile[n].cmd, env))

\* package.json defines a script named t
ScriptDefined(t) ==
    world.package_json.exists /\ world.package_json.parses
        /\ t \in world.package_json.scripts

\* node_modules/.bin holds an entry named t
LocalBinary(t) == world.bin.exists /\ t \in world.bin.entries

\* C18: the child of a task with tokens t, r1, ..., rn is the package manager
\* with the arguments run, t, r1, ..., rn when package.json defines a script t;
\* or else node_modules/.bin/t with r1, ..., rn when that entry exists; or else
\* t with r1, ..., rn. A script goes before a local binary of the same name.
C18_Resolution ==
    \A k \in 1..Len(procs) :
        LET parts == Tokens(procs[k].task_name)
            t     == parts[1]
        IN  /\ ScriptDefined(t) =>
                /\ procs[k].command \in {Yarn, Pnpm, Npm}
                /\ procs[k].command = Yarn <=> world.yarn_lock
                /\ procs[k].command = Pnpm <=>
                        (~world.yarn_lock /\ world.pnpm_lock)
                /\ procs[k].args = <<RunArg, t>> \o Tail(parts)
            /\ (~ScriptDefined(t) /\ LocalBinary(t)) =>
                /\ procs[k].command = NodeBinDir \o t
                /\ procs[k].args = Tail(parts)
            /\ (~ScriptDefined(t) /\ ~LocalBinary(t)) =>
                /\ procs[k].command = t
                /\ procs[k].args = Tail(parts)

C18_Witness ==
    /\ taskfile["A"].cmd = <<"a", " ", "b">>
    /\ ScriptDefined(<<"a">>) /\ LocalBinary(<<"a">>)
    /\ ~world.yarn_lock /\ world.pnpm_lock
    /\ Len(procs) = 1
    /\ procs[1].command = Pnpm
    /\ procs[1].args = <<RunArg, <<"a">>, <<"b">> >>

\* the canonical path of node_modules/.bin can be had
BinCanonical == world.bin.exists /\ world.bin.canonical # <<>>

\* C19 as claimed: when node_modules/.bin exists, the PATH of a child is the
\* canonical path of the directory, then the parent's PATH.
C19_Claimed ==
    \A k \in 1..Len(procs) :
        (BinCanonical /\ PATH \in DOMAIN env) =>
            procs[k].PATH = <<world.bin.canonical[1] \o <<":">> \o env[PATH]>>

\* the PATH of the children, by the working directory and the parent's PATH
ExpectedPath ==
    IF world.package_json.exists /\ BinCanonical
    THEN IF PATH \in DOMAIN env
         THEN <<world.bin.canonical[1] \o <<":">> \o env[PATH]>>
         ELSE <<world.bin.canonical[1]>>
    ELSE IF PATH \in DOMAIN env THEN <<env[PATH]>> ELSE <<>>

\* C19: when package.json and node_modules/.bin both exist, the PATH of a child
\* is the canonical path of the directory, followed by `:` and the parent's PATH
\* when the parent has one; without package.json, or when the directory is
\* missing or has no canonical path, the child has the parent's PATH; no step of
\* the run changes the parent's environment.
C19_ChildPath ==
    /\ [](\A k \in 1..Len(procs) : procs[k].PATH = ExpectedPath)
    /\ [][env' = env]_vars

C19_Witness ==
    /\ ~world.package_json.exists /\ BinCanonical
    /\ PATH \in DOMAIN env /\ env[PATH] = <<"/", "u">>
    /\ Len(procs) = 1 /\ procs[1].PATH = << <<"/", "u">> >>
    /\ Done

\* the tasks reached from the set S in at most `fuel` steps along the declared
\* dependencies that are tasks
RECURSIVE ReachFrom(_, _)
ReachFrom(S, fuel) ==
    IF fuel = 0 THEN S
    ELSE ReachFrom(S \cup UNION {Range(Declared(n)) \cap Keys : n \in S},
                   fuel - 1)

\* the tasks reachable from n, n itself included
Reach(n) == ReachFrom({n}, Cardinality(Keys))

\* the graph reachable from the root holds a cycle: some reachable task is
\* reachable from one of its own dependencies
HasCycle(root) ==
    \E n \in Reach(root) :
        \E d \in Range(Declared(n)) \cap Keys : n \in Reach(d)

\* every name a task lists is a task
AllDepsExist == \A n \in Keys : Range(Declared(n)) \subseteq Keys

\* C21: when every listed dependency exists and every command is non-empty and
\* exits with code 0, run_task on a task returns CircularDependency if the
\* graph reachable from it holds a cycle and Ok if it does not; a dependency
\* shared by two tasks is no cycle.
C21_CircularIffCycle ==
    (Done /\ AllDepsExist) =>
        /\ ret.kind = "CircularDependency" <=> HasCycle(call)
        /\ ret.kind = "Ok" <=> ~HasCycle(call)

C21_Witness ==
    /\ Done /\ call = "A" /\ Len(calls) = 1
    /\ Declared("A") = <<"B", "C">> /\ Declared("B") = <<"C">>
    /\ ~HasCycle("A")
    /\ ret.kind = "Ok"
    /\ Len(procs) = 4

\* C22: a run_task call in progress eventually returns, a success or a failure,
\* when every spawned child eventually exits, whatever cycles the manifest
\* holds; and the nested run_task_with_deps calls are never more than the tasks
\* of the manifest plus one.
C22_Terminates ==
    /\ [](Len(stack) <= Cardinality(DOMAIN taskfile) + 1)
    /\ (stack # <<>>) ~> (Done /\ ret.kind # "None")

C22_Witness ==
    /\ Deps("A") = <<"B">> /\ Deps("B") = <<"C">> /\ Deps("C") = <<"A">>
    /\ call = "A"
    /\ Len(stack) = Cardinality(DOMAIN taskfile) + 1
    /\ Top.task_name = "A"

\* the value of a record before any quotes are removed: the trimmed text after
\* the first `=`
RawValueOf(l) == trim(SubSeq(trim(l), FirstEq(l) + 1, Len(trim(l))))

\* C23: load_env_file, on a file of text lines whose records all have a key,
\* installs for each record the trimmed value, without its outer pair of quotes
\* when it begins and ends with the same quote character, and as it is
\* otherwise: with mismatched quotes, and when it is one quote character.
C23_Claimed ==
    LET lines   == fs["e1"].lines
        records == {k \in 1..Len(lines) : IsRecord(lines[k])}
    IN  (config_files = <<"e1">> /\ loadState # "idle"
            /\ \A k \in 1..Len(lines) : BadByte \notin Range(lines[k])
            /\ \A r \in records : KeyOf(lines[r]) # <<>>) =>
            /\ loadState # "panicked"
            /\ loadIdx > 1 =>
                \A k \in records :
                    (\A j \in records :
                        j > k => KeyOf(lines[j]) # KeyOf(lines[k])) =>
                        LET v == RawValueOf(lines[k]) IN
                        /\ KeyOf(lines[k]) \in DOMAIN env
                        /\ env[KeyOf(lines[k])] =
                            IF /\ Len(v) >= 2
                               /\ \/ v[1] = "'" /\ v[Len(v)] = "'"
                                  \/ v[1] = "\"" /\ v[Len(v)] = "\""
                            THEN SubSeq(v, 2, Len(v) - 1)
                            ELSE v

\* C24: the environment table is written only while the environment files are
\* loaded; loading has returned before the first run_task call, so before any
\* command is substituted or spawned; and no step of a run_task call, on the
\* success path or on a failure path, changes the table, which is therefore
\* after the call what it was before it.
C24_EnvFrame ==
    /\ [](call # "-" => loadState = "returned")
    /\ [](loadState # "returned" => attempted = <<>> /\ procs = <<>>)
    /\ [][env' # env => loadState = "loading" /\ call = "-"]_vars
    /\ [][call' # "-" => env' = env]_vars

C24_Witness ==
    /\ Done
    /\ loaded = <<[file |-> "e1", count |-> 1]>>
    /\ env[<<"E">>] = <<"v">>
    /\ enhanced_path # <<>>
    /\ call = "A" /\ taskfile["A"].cmd = <<"$", "E">>
    /\ ret.kind = "TaskFailed"
    /\ Len(procs) = 1 /\ procs[1].command = <<"v">>

\* the `$` at place p of the text t is followed by no name character
BareDollar(t, p) ==
    /\ t[p] = "$"
    /\ p = Len(t) \/ ~is_ident_char(t[p + 1])

\* C25: a `$` that no alphanumeric or underscore character follows (at the end
\* of the text, before a space, before another `$`) is copied to the output and
\* the scan goes on at the very next character: the output is the substitution
\* of the text before it, the `$`, and the substitution of the text after it; so
\* `$$E` with E set gives `$` followed by the value of E.
C25_BareDollar ==
    subst_out # <<>> =>
        /\ \A p \in 1..Len(subst_in) :
            BareDollar(subst_in, p) =>
                subst_out[1] =
                    substitute_env_vars(SubSeq(subst_in, 1, p - 1), env)
                        \o <<"$">>
                        \o substitute_env_vars(
                               SubSeq(subst_in, p + 1, Len(subst_in)), env)
        /\ (subst_in = <<"$", "$", "E">> /\ <<"E">> \in DOMAIN env) =>
                subst_out[1] = <<"$">> \o env[<<"E">>]

C25_Witness ==
    /\ subst_in = <<"$", "$", "E">>
    /\ <<"E">> \in DOMAIN env /\ env[<<"E">>] = <<"v">>
    /\ subst_out = << <<"$", "v">> >>

\* the length of the part of `result` that is still to be scanned
Remaining(s) == Len(s.result) - s.start

\* C26: substitute_env_vars returns on every text and every environment, with
\* values that are empty, hold a `$` or name the variable itself: every loop
\* iteration makes the part of `result` still to be scanned strictly shorter.
C26_Terminates ==
    /\ [][(scan # <<>> /\ scan' # <<>>) =>
            Remaining(scan'[1]) < Remaining(scan[1])]_vars
    /\ [](scan # <<>> => Remaining(scan[1]) >= 0)
    /\ <>(subst_out # <<>>)

C26_Witness ==
    /\ subst_in = <<"$", "E", "$", "E">>
    /\ <<"E">> \in DOMAIN env /\ env[<<"E">>] = <<"$", "E">>
    /\ scan = <<[result |-> <<"$", "E", "$", "E">>, start |-> 2]>>

\* C27: the child of a task whose first token names a script of package.json
\* is yarn when yarn.lock exists, also when pnpm-lock.yaml exists as well; pnpm
\* when yarn.lock does not exist and pnpm-lock.yaml does; npm when neither
\* exists.
C27_LockfileOrder ==
    \A k \in 1..Len(procs) :
        ScriptDefined(Tokens(procs[k].task_name)[1]) =>
            /\ world.yarn_lock => procs[k].command = Yarn
            /\ (~world.yarn_lock /\ world.pnpm_lock) => procs[k].command = Pnpm
            /\ (~world.yarn_lock /\ ~world.pnpm_lock) => procs[k].command = Npm

C27_Witness ==
    /\ Len(procs) = 1
    /\ ScriptDefined(Tokens(procs[1].task_name)[1])
    /\ world.yarn_lock /\ world.pnpm_lock
    /\ procs[1].command = Yarn
    /\ procs[1].state = "exited"

\* C28: on a manifest in which no task lists a dependency, with no package.json
\* and no node_modules/.bin, run_task of the legacy runner and run_task of the
\* dependency-aware runner, for the same task name and the same answers of the
\* operating system, spawn the same number of processes, with the same
\* executable and the same arguments, and return the same Result: Ok, or an
\* error of the same message.
C28_RunnersAgree ==
    legacy # <<>> =>
        /\ legacy[1].ret = ret
        /\ Len(legacy[1].spawned) = Len(procs)
        /\ \A k \in 1..Len(procs) :
            /\ legacy[1].spawned[k].command = procs[k].command
            /\ legacy[1].spawned[k].args = procs[k].args

C28_Witness ==
    /\ legacy # <<>>
    /\ call = "A" /\ taskfile["A"].cmd = <<"a", " ", "b">>
    /\ world.yarn_lock
    /\ ret = Err("TaskFailed", "A", "-", 3)
    /\ legacy[1].ret = ret
    /\ legacy[1].spawned = <<[command |-> <<"a">>, args |-> << <<"b">> >>]>>

=============================================================================
